---- MODULE Spec2Model ----
(***************************************************************************)
(* A model of priority-beam-search: the bounded min-max heap "Beam"        *)
(* (src/src/beam.ts 1-213) and the search driver "Optimizer"               *)
(* (src/src/beam.ts 215-384).                                              *)
(*                                                                         *)
(* Array indices are 0-based as in the source; a TLA+ sequence h stores    *)
(* source index i at h[i + 1].                                             *)
(***************************************************************************)
EXTENDS Integers, Sequences, FiniteSets, TLC

\* ------------------------------------------------------------------ bounds
\* Largest capacity given to a Beam in the container specification.
MaxLimit == 7
\* Largest number of initial elements given to the Beam constructor.
MaxItems == 4
\* Elements of the container specification are the integers 1..MaxVal.
MaxVal == 3
\* The clock of the search specification runs from 0 to MaxClock milliseconds.
MaxClock == 4
\* The history variables popSeq and expanded keep the first MaxTrace entries.
MaxTrace == 6
\* Past MaxClock a turn is followed until MaxOverrun milliseconds after its deadline.
MaxOverrun == 1

VARIABLES
    heap,       \* Beam.heap (or the plain array in exhaustive mode)
    size,       \* Beam.size (the array's length in exhaustive mode)
    limit,      \* Beam.limit
    score,      \* the caller's ranking: evaluate(a, b) = score[a] - score[b]
    lastOp,     \* history: the last container operation, its argument and result
    ideal,      \* history: sorted k best of everything given so far (no pop yet)
    popped,     \* history: TRUE once pop has been called
    options,    \* the options object given to new Optimizer (absent keys are absent)
    extend,     \* the caller's expansion function: state -> sequence of successors
    check,      \* the caller's completeness predicate: the set of complete states
    init,       \* the initial states given to run
    pc,         \* position of the run: start, enter, iter, while, idle, resolved, rejected
    now,        \* Date.now()
    interval,   \* TRUE while the setInterval timer is registered
    isBeam,     \* partials is a Beam (TRUE) or a plain array (FALSE)
    representativeBest,
    equivalents,
    activeTime,
    equivSize,
    nextLoopTime,
    hasTop,
    top,
    optimalTime,    \* in hundredths of a millisecond
    bestTime,
    start,      \* loop: const start
    turnLimit,  \* loop: const limit
    candidate,  \* loop: const candidate (the state popped last)
    cause,      \* history: why the run resolved
    tiesFound,  \* history: complete states scored as tied since representativeBest last changed
    visited,    \* history: the states popped so far
    runCall,    \* history: how the call of run ended: none, returned (a promise), threw
    spent,      \* history: clock time spent inside turns that have ended
    popSeq,     \* history: the candidates popped, in order
    expanded,   \* history: the candidates expanded, in order
    refSeq,     \* history: the candidates the same search pops when it is never suspended
    resolves    \* history: how many times resolve was called

containerVars == <<heap, size, limit>>

historyVars == <<lastOp, ideal, popped>>

problemVars == <<score, options, extend, check, init>>

runVars == <<pc, now, interval, isBeam, representativeBest, equivalents, activeTime,
             equivSize, nextLoopTime, hasTop, top, optimalTime, bestTime, start,
             turnLimit, candidate, cause, tiesFound, visited>>

auditVars == <<runCall, spent, popSeq, expanded, refSeq, resolves>>

vars == <<containerVars, historyVars, problemVars, runVars, auditVars>>

\* ------------------------------------------------------------ enum CMP
LT == -1
EQ == 0
GT == 1

\* Math.sign
Sign(x) == IF x < 0 THEN -1 ELSE IF x > 0 THEN 1 ELSE 0

\* The caller's comparator (README: evaluate): negative when a is more optimal.
evaluate(a, b) == score[a] - score[b]

\* this.compare = (a, b) => Math.sign(compare(a, b))
compare(a, b) == Sign(evaluate(a, b))

\* 0-based read of a sequence
At(h, i) == h[i + 1]

\* h with source index i set to v (an assignment at index Len(h) appends)
Put(h, i, v) == IF i = Len(h) THEN Append(h, v) ELSE [h EXCEPT ![i + 1] = v]

RECURSIVE FloorLog2(_)
FloorLog2(n) == IF n <= 1 THEN 0 ELSE 1 + FloorLog2(n \div 2)

\* (Math.log2(i + 1) & 1) === 0 : the bitwise and truncates log2 to an integer
isMinLevel(i) == (FloorLog2(i + 1) % 2) = 0

\* ------------------------------------------------------ getSmallestChild
getSmallestChild(h, n, i, gt) ==
    LET l == 2 * i + 1
        r == l + 1
    IN  IF l >= n THEN [has |-> FALSE, m |-> l]
        ELSE IF r >= n THEN [has |-> TRUE, m |-> l]
        ELSE [has |-> TRUE,
              m |-> IF compare(At(h, l), At(h, r)) = gt THEN r ELSE l]

\* ------------------------------------------------- getSmallestDescendent
getSmallestDescendent(h, n, i, gt) ==
    LET l == 2 * i + 1
        r == l + 1
        cl == getSmallestChild(h, n, l, gt)
        cr == getSmallestChild(h, n, r, gt)
    IN  IF l >= n THEN [has |-> FALSE, isgc |-> FALSE, m |-> l]
        ELSE IF r >= n THEN [has |-> TRUE, isgc |-> FALSE, m |-> l]
        ELSE IF ~cl.has THEN
            [has |-> TRUE, isgc |-> FALSE,
             m |-> IF compare(At(h, l), At(h, r)) = gt THEN r ELSE l]
        ELSE IF ~cr.has THEN [has |-> TRUE, isgc |-> TRUE, m |-> cl.m]
        ELSE [has |-> TRUE, isgc |-> TRUE,
              m |-> IF compare(At(h, cl.m), At(h, cr.m)) = gt THEN cr.m ELSE cl.m]

\* ------------------------------------------------------------ trickleDown
\* One pass of the while loop of trickleDown on the heap h: lt and gt are
\* fixed by the level of the index the call started at.
RECURSIVE trickleLoop(_, _, _, _, _)
trickleStep(h, n, i, lt, gt) ==
    LET d == getSmallestDescendent(h, n, i, gt)
        m == d.m
        hm == At(h, m)
        hi == At(h, i)
        h1 == Put(Put(h, i, hm), m, hi)
        p == (m - 1) \div 2
        hp == At(h1, p)
        h2 == IF compare(hi, hp) = gt THEN Put(Put(h1, p, hi), m, hp) ELSE h1
    IN  IF ~d.has THEN h
        ELSE IF compare(hm, hi) = lt THEN
            IF d.isgc THEN trickleLoop(h2, n, m, lt, gt) ELSE h1
        ELSE h

\* The while loop of trickleDown (h0 is evaluated once, then stepped).
trickleLoop(h0, n, i, lt, gt) ==
    CHOOSE r \in {trickleStep(h, n, i, lt, gt) : h \in {h0}} : TRUE

trickleDown(h, n, i) ==
    IF isMinLevel(i) THEN trickleLoop(h, n, i, LT, GT)
    ELSE trickleLoop(h, n, i, GT, LT)

\* --------------------------------------------------------------- bubbleUp
\* One pass of the while loop of bubbleUp on the heap h.
RECURSIVE bubbleLoop(_, _, _)
bubbleStep(h, i, lt) ==
    LET gp == (((i - 1) \div 2) - 1) \div 2
        hi == At(h, i)
        hp == At(h, gp)
    IN  IF i < 3 THEN h
        ELSE IF compare(hi, hp) = lt THEN bubbleLoop(Put(Put(h, i, hp), gp, hi), gp, lt)
        ELSE h

\* The while loop of bubbleUp (h0 is evaluated once, then stepped).
bubbleLoop(h0, i, lt) ==
    CHOOSE r \in {bubbleStep(h, i, lt) : h \in {h0}} : TRUE

bubbleUp(h, i) ==
    LET p == (i - 1) \div 2
        hi == At(h, i)
        hp == At(h, p)
        cmp == compare(hi, hp)
        sw == Put(Put(h, i, hp), p, hi)
    IN  IF isMinLevel(i) THEN
            IF cmp = GT THEN bubbleLoop(sw, p, GT) ELSE bubbleLoop(h, i, LT)
        ELSE IF cmp = LT THEN bubbleLoop(sw, p, LT)
        ELSE bubbleLoop(h, i, GT)

\* --------------------------------------------------------------- maxIndex
maxIndex(h, n) ==
    IF n < 2 THEN 0
    ELSE IF n = 2 THEN 1
    ELSE IF compare(At(h, 1), At(h, 2)) = LT THEN 2 ELSE 1

\* ------------------------------------------------------------------- push
\* pushHeap with the comparison against the worst element reversed.
pushHeap_Reversed(h, n, lim, e) ==
    IF lim = 0 THEN h
    ELSE IF n = 0 THEN Put(h, 0, e)
    ELSE IF n < lim THEN bubbleUp(Put(h, n, e), n)
    ELSE IF lim = 1 THEN
        IF compare(e, At(h, 0)) = GT THEN Put(h, 0, e) ELSE h
    ELSE LET maxI == maxIndex(h, n)
             h1 == Put(h, maxI, e)
         IN  IF compare(e, At(h, maxI)) = GT
             THEN trickleDown(trickleDown(h1, n, maxI), n, 0)
             ELSE h

\* The heap after push(e) on a Beam <<h, n>> of capacity lim.
pushHeap(h, n, lim, e) ==
    IF lim = 0 THEN h
    ELSE IF n = 0 THEN Put(h, 0, e)
    ELSE IF n < lim THEN bubbleUp(Put(h, n, e), n)
    ELSE IF lim = 1 THEN
        IF compare(e, At(h, 0)) = LT THEN Put(h, 0, e) ELSE h
    ELSE LET maxI == maxIndex(h, n)
             h1 == Put(h, maxI, e)
         IN  IF compare(e, At(h, maxI)) = LT
             THEN trickleDown(trickleDown(h1, n, maxI), n, 0)
             ELSE h

\* pushSize that also grows a Beam that is already at capacity.
pushSize_OffByOne(n, lim) ==
    IF lim = 0 THEN n
    ELSE IF n = 0 THEN 1
    ELSE IF n <= lim THEN n + 1
    ELSE n

\* The size after push(e).
pushSize(n, lim) ==
    IF lim = 0 THEN n
    ELSE IF n = 0 THEN 1
    ELSE IF n < lim THEN n + 1
    ELSE n
\* pop() dropping the last element instead of moving it to the root.
popHeap_DropsLast(h, n) ==
    LET n1 == n - 1
        h1 == SubSeq(h, 1, n1)
    IN  IF n1 > 0 THEN trickleDown(h1, n1, 0) ELSE <<>>

\* -------------------------------------------------------------------- pop
\* The heap after pop() on a non-empty Beam: the last element moves to the
\* root, the array is truncated and the root trickles down.
popHeap(h, n) ==
    LET n1 == n - 1
        h1 == SubSeq(Put(h, 0, At(h, n1)), 1, n1)
    IN  IF n1 > 0 THEN trickleDown(h1, n1, 0) ELSE <<>>

\* pop() returns undefined on an empty Beam
undefined == -1

\* pop(): the returned element
popRet(h, n) == IF n = 0 THEN undefined ELSE At(h, 0)

\* ------------------------------------------------------------ constructor
Range(s) == {s[j] : j \in 1..Len(s)}

Count(s, v) == Cardinality({j \in 1..Len(s) : s[j] = v})

Min2(a, b) == IF a < b THEN a ELSE b

\* select(items, k, compare) of the floyd-rivest package followed by
\* items.slice(0, k): every arrangement of k elements of items none of which
\* is worse than an element left out.
SelectPrefixes(items, k) ==
    IF k = 0 THEN {<<>>}
    ELSE {p \in [1..k -> Range(items)] :
            /\ \A v \in Range(items) : Count(p, v) <= Count(items, v)
            /\ \A x \in Range(p) :
                 \A y \in {v \in Range(items) : Count(items, v) > Count(p, v)} :
                    compare(x, y) # GT}

\* for (let i = this.size >> 1; i >= 0; i--) this.trickleDown(i)
RECURSIVE heapify(_, _, _)
heapify(h0, n, i) ==
    IF i < 0 THEN h0
    ELSE CHOOSE r \in {heapify(h, n, i - 1) : h \in {trickleDown(h0, n, i)}} : TRUE

\* The heaps the constructor can produce from items with capacity lim.
BeamHeaps(lim, items) ==
    IF Len(items) > lim
    THEN {heapify(p, lim, lim \div 2) : p \in SelectPrefixes(items, lim)}
    ELSE {heapify(items, Len(items), Len(items) \div 2)}

\* The size the constructor sets.
BeamSize(lim, items) == IF Len(items) > lim THEN lim ELSE Len(items)

\* ------------------------------------------------- history: ideal top-k
\* s is sorted best first; e goes after the elements that are not worse.
InsertAt(s, e) ==
    LET k == Cardinality({j \in 1..Len(s) : compare(e, s[j]) # LT})
    IN  SubSeq(s, 1, k) \o <<e>> \o SubSeq(s, k + 1, Len(s))

InsertSorted(s0, e) == CHOOSE r \in {InsertAt(s, e) : s \in {s0}} : TRUE

RECURSIVE SortBest(_)
SortBest(s) == IF s = <<>> THEN <<>> ELSE InsertSorted(SortBest(Tail(s)), Head(s))

Take(s, k) == SubSeq(s, 1, Min2(k, Len(s)))

\* ----------------------------------------- the container specification
Values == 1..MaxVal

SeqsUpTo(S, n) == UNION {[1..k -> S] : k \in 0..n}

\* The container specification has no Optimizer: its variables stay put.
IdleOptimizer ==
    /\ options = <<>>
    /\ extend = <<>>
    /\ check = {}
    /\ init = <<>>
    /\ pc = "none"
    /\ now = 0
    /\ interval = FALSE
    /\ isBeam = TRUE
    /\ representativeBest = undefined
    /\ equivalents = {}
    /\ activeTime = 0
    /\ equivSize = 0
    /\ nextLoopTime = 0
    /\ hasTop = FALSE
    /\ top = undefined
    /\ optimalTime = 0
    /\ bestTime = 0
    /\ start = 0
    /\ turnLimit = 0
    /\ candidate = undefined
    /\ cause = "none"
    /\ tiesFound = 0
    /\ visited = {}
    /\ runCall = "none"
    /\ spent = 0
    /\ popSeq = <<>>
    /\ expanded = <<>>
    /\ refSeq = <<>>
    /\ resolves = 0

\* new Beam(compare, lim, items)
BeamInit ==
    /\ score = [v \in Values |-> v]
    /\ limit \in 0..MaxLimit
    /\ \E items \in SeqsUpTo(Values, MaxItems) :
         /\ heap \in BeamHeaps(limit, items)
         /\ size = BeamSize(limit, items)
         /\ lastOp = [op |-> "new", arg |-> Len(items), ret |-> undefined]
         /\ ideal = Take(SortBest(items), limit)
    /\ popped = FALSE
    /\ IdleOptimizer

\* beam.push(e)
Push(e) ==
    /\ heap' = pushHeap(heap, size, limit, e)
    /\ size' = pushSize(size, limit)
    /\ lastOp' = [op |-> "push", arg |-> e, ret |-> undefined]
    /\ ideal' = IF popped THEN <<>> ELSE Take(InsertSorted(ideal, e), limit)
    /\ UNCHANGED <<limit, score, popped, options, extend, check, init, runVars,
                   auditVars>>

\* beam.pop()
Pop ==
    /\ heap' = IF size = 0 THEN <<>> ELSE popHeap(heap, size)
    /\ size' = IF size = 0 THEN 0 ELSE size - 1
    /\ lastOp' = [op |-> "pop", arg |-> undefined, ret |-> popRet(heap, size)]
    /\ ideal' = <<>>
    /\ popped' = TRUE
    /\ UNCHANGED <<limit, score, options, extend, check, init, runVars, auditVars>>

BeamNext ==
    \/ \E e \in Values : Push(e)
    \/ Pop

BeamSpec == BeamInit /\ [][BeamNext]_vars

\* ================================================================ Optimizer
\* Stands for the number Infinity: larger than every count and time of the model.
Infinity == 1000000

\* an option was given
Has(name) == name \in DOMAIN options

\* ---------------------------------------------- Optimizer constructor
\* this.isOptimal is set when options.isOptimal is a function
hasIsOptimal == Has("isOptimal")

\* isOptimal(c): the oracle is given as the set of states it accepts
isOptimal(c) == c \in options.isOptimal

\* this.beamLimit = beamLimit > 0 ? beamLimit : Infinity
beamLimit ==
    IF Has("beamLimit") /\ options.beamLimit > 0 THEN options.beamLimit ELSE Infinity

\* this.turnTime = optTurnTime > 0 && isFinite(optTurnTime) ? optTurnTime : 30
turnTime ==
    IF Has("turnTime") /\ options.turnTime > 0 /\ options.turnTime < Infinity
    THEN options.turnTime ELSE 30

\* this.totalTime = optTotalTime > 0 ? optTotalTime : Infinity
totalTime ==
    IF Has("totalTime") /\ options.totalTime > 0 THEN options.totalTime ELSE Infinity

\* this.maxSavedEquivalents = options.maxSavedEquivalents || 0
maxSavedEquivalents ==
    IF Has("maxSavedEquivalents") THEN options.maxSavedEquivalents ELSE 0

\* this.equivBailLimit = typeof options.equivBailLimit === "number" ? ... : Infinity
equivBailLimit ==
    IF Has("equivBailLimit") THEN options.equivBailLimit ELSE Infinity

Abs(x) == IF x < 0 THEN -x ELSE x

\* Math.min(Math.abs(options.utilization || 0.5), 1), in percent
utilization ==
    IF Has("utilization") /\ options.utilization # 0
    THEN Min2(Abs(options.utilization), 100) ELSE 50

\* this.turnInterval = this.turnTime / utilization (the modelled values divide)
turnInterval == (turnTime * 100) \div utilization

\* this.optimalTimeRatio = 0 <= r && r <= 1 ? r : 0.66, in percent
optimalTimeRatio ==
    IF Has("optimalTimeRatio") /\ options.optimalTimeRatio >= 0
                               /\ options.optimalTimeRatio <= 100
    THEN options.optimalTimeRatio ELSE 66

\* ------------------------------------------------------ SequentialAccess
\* partials.push(e), on the Beam or on the plain array
partialsPush(h, n, e) ==
    IF isBeam THEN [heap |-> pushHeap(h, n, limit, e), size |-> pushSize(n, limit)]
    ELSE [heap |-> Append(h, e), size |-> n + 1]

\* for (const c of extend(top)) partials.push(c)
RECURSIVE pushAll(_, _)
pushAll(b0, cs) ==
    IF cs = <<>> THEN b0
    ELSE CHOOSE r \in {pushAll(partialsPush(b.heap, b.size, Head(cs)), Tail(cs)) : b \in {b0}} : TRUE

\* the array after partials.pop() (partials is not empty)
partialsPopHeap(h, n) == IF isBeam THEN popHeap(h, n) ELSE SubSeq(h, 1, n - 1)

\* the value of partials.pop() (partials is not empty)
partialsPopRet(h, n) == IF isBeam THEN popRet(h, n) ELSE At(h, n - 1)

\* Math.ceil(a / b) for a >= 0, b > 0
CeilDiv(a, b) == (a + b - 1) \div b

\* ------------------------------------------- the search, never suspended
\* history: the sequence s with the entry c recorded
Record(s, c) == IF Len(s) < MaxTrace THEN Append(s, c) ELSE s

\* The do loop of run without its deadline check, from the search state r
\* (container, representativeBest, equivSize, the pops so far) to the point
\* where it ends by exhaustion, by the oracle or by the bail limit: the
\* sequence of candidates popped (its first MaxTrace entries).
RECURSIVE unsuspendedLoop(_)
unsuspendedStep(r) ==
    LET c == partialsPopRet(r.heap, r.size)
        h == partialsPopHeap(r.heap, r.size)
        pops == Append(r.pops, c)
        cmp == evaluate(c, r.best)
        grown == pushAll([heap |-> h, size |-> r.size - 1], extend[c])
    IN  IF r.size = 0 \/ Len(r.pops) >= MaxTrace THEN r.pops
        ELSE IF c \notin check THEN
            unsuspendedLoop([r EXCEPT !.heap = grown.heap, !.size = grown.size,
                                      !.pops = pops])
        ELSE IF cmp < 0 THEN
            IF hasIsOptimal /\ isOptimal(c) THEN pops
            ELSE unsuspendedLoop([r EXCEPT !.heap = h, !.size = r.size - 1,
                                           !.best = c, !.pops = pops])
        ELSE IF cmp = 0 /\ r.n < maxSavedEquivalents THEN
            IF r.n + 1 > equivBailLimit THEN pops
            ELSE unsuspendedLoop([r EXCEPT !.heap = h, !.size = r.size - 1,
                                           !.n = r.n + 1, !.pops = pops])
        ELSE unsuspendedLoop([r EXCEPT !.heap = h, !.size = r.size - 1, !.pops = pops])

unsuspendedLoop(r0) == CHOOSE q \in {unsuspendedStep(r) : r \in {r0}} : TRUE

\* The candidates popped from the current search state on when no deadline
\* ever suspends the loop.
Unsuspended ==
    unsuspendedLoop([heap |-> heap, size |-> size, best |-> representativeBest,
                     n |-> equivSize, pops |-> <<>>])
\* ------------------------------------------------------------------ run
\* run, registering the timer before it looks at the initial states
Run_TimerFirst ==
    /\ pc = "start"
    /\ UNCHANGED <<historyVars, problemVars, now, top, start, turnLimit, candidate,
                   cause, tiesFound, visited, spent, popSeq, expanded, resolves>>
    /\ isBeam' = (hasIsOptimal \/ beamLimit < Infinity)
    /\ IF isBeam'
       THEN /\ heap' \in BeamHeaps(beamLimit, init)
            /\ size' = BeamSize(beamLimit, init)
            /\ limit' = beamLimit
       ELSE /\ heap' = init
            /\ size' = Len(init)
            /\ limit' = limit
    /\ interval' = TRUE
    /\ IF size' = 0
       THEN /\ pc' = "rejected"
            /\ UNCHANGED <<representativeBest, nextLoopTime, optimalTime>>
       ELSE /\ pc' = "enter"
            /\ representativeBest' = At(heap', 0)
            /\ nextLoopTime' = now
            /\ optimalTime' = IF totalTime = Infinity THEN Infinity ELSE totalTime * 100
    /\ equivalents' = {}
    /\ activeTime' = 0
    /\ equivSize' = 0
    /\ hasTop' = FALSE
    /\ bestTime' = 0
    /\ runCall' = "returned"
    /\ refSeq' = IF size' = 0 THEN <<>> ELSE Unsuspended'

\* run(init) up to and including setInterval; the first call of loop follows.
Run ==
    /\ pc = "start"
    /\ UNCHANGED <<historyVars, problemVars, now, top, start, turnLimit, candidate,
                   cause, tiesFound, visited, spent, popSeq, expanded, resolves>>
    /\ isBeam' = (hasIsOptimal \/ beamLimit < Infinity)
    /\ IF isBeam'
       THEN /\ heap' \in BeamHeaps(beamLimit, init)
            /\ size' = BeamSize(beamLimit, init)
            /\ limit' = beamLimit
       ELSE /\ heap' = init
            /\ size' = Len(init)
            /\ limit' = limit
    /\ IF size' = 0
       THEN \* throw new Error("Missing Initial States") inside the executor
            /\ pc' = "rejected"
            /\ UNCHANGED <<representativeBest, nextLoopTime, optimalTime, interval>>
       ELSE /\ pc' = "enter"
            /\ representativeBest' = At(heap', 0)
            /\ nextLoopTime' = now
            /\ optimalTime' = IF totalTime = Infinity THEN Infinity ELSE totalTime * 100
            /\ interval' = TRUE
    /\ equivalents' = {}
    /\ activeTime' = 0
    /\ equivSize' = 0
    /\ hasTop' = FALSE
    /\ bestTime' = 0
    \* the executor's throw rejects the promise that run returns
    /\ runCall' = "returned"
    /\ refSeq' = IF size' = 0 THEN <<>> ELSE Unsuspended'

\* loop(interval): the lines before the do loop
LoopEnter ==
    /\ pc = "enter"
    /\ start' = now
    /\ IF now < nextLoopTime
       THEN /\ pc' = "idle"
            /\ UNCHANGED <<nextLoopTime, turnLimit>>
       ELSE /\ pc' = "iter"
            /\ nextLoopTime' =
                 nextLoopTime + CeilDiv(now - nextLoopTime, turnInterval) * turnInterval
            /\ turnLimit' = now + turnTime
    /\ UNCHANGED <<containerVars, historyVars, problemVars, now, interval, isBeam,
                   representativeBest, equivalents, activeTime, equivSize, hasTop, top,
                   optimalTime, bestTime, candidate, cause, tiesFound, visited, auditVars>>
\* The head of the do loop, giving up the pending candidate when the turn's
\* deadline has passed.
Expand_DropsAtDeadline ==
    /\ pc = "iter"
    /\ LET b == IF hasTop /\ now <= turnLimit
                THEN pushAll([heap |-> heap, size |-> size], extend[top])
                ELSE [heap |-> heap, size |-> size]
       IN  /\ heap' = b.heap
           /\ size' = b.size
    /\ hasTop' = FALSE
    /\ pc' = "while"
    /\ UNCHANGED <<limit, historyVars, problemVars, now, interval, isBeam,
                   representativeBest, equivalents, activeTime, equivSize, nextLoopTime,
                   top, optimalTime, bestTime, start, turnLimit, candidate, cause,
                   tiesFound, visited, runCall, spent, popSeq, refSeq, resolves>>
    /\ expanded' = IF hasTop /\ now <= turnLimit THEN Record(expanded, top) ELSE expanded

\* the head of the do loop: expand the pending candidate, if there is one
Expand ==
    /\ pc = "iter"
    /\ LET b == IF hasTop
                THEN pushAll([heap |-> heap, size |-> size], extend[top])
                ELSE [heap |-> heap, size |-> size]
       IN  /\ heap' = b.heap
           /\ size' = b.size
    /\ hasTop' = FALSE
    /\ pc' = "while"
    /\ UNCHANGED <<limit, historyVars, problemVars, now, interval, isBeam,
                   representativeBest, equivalents, activeTime, equivSize, nextLoopTime,
                   top, optimalTime, bestTime, start, turnLimit, candidate, cause,
                   tiesFound, visited, runCall, spent, popSeq, refSeq, resolves>>
    /\ expanded' = IF hasTop THEN Record(expanded, top) ELSE expanded
\* resolve without clearInterval
Resolve_KeepsTimer(why) ==
    /\ pc' = "resolved"
    /\ interval' = interval
    /\ cause' = why
    /\ resolves' = resolves + 1
    /\ spent' = spent + (now - start)

\* clearInterval(interval); resolve([equivalents, activeTime])
Resolve(why) ==
    /\ pc' = "resolved"
    /\ interval' = FALSE
    /\ cause' = why
    /\ resolves' = resolves + 1
    /\ spent' = spent + (now - start)

\* while (partials.length > 0) fails: "Exhausted search space."
Exhausted ==
    /\ pc = "while"
    /\ size = 0
    /\ Resolve("exhausted")
    /\ UNCHANGED <<containerVars, historyVars, problemVars, now, isBeam,
                   representativeBest, equivalents, activeTime, equivSize, nextLoopTime,
                   hasTop, top, optimalTime, bestTime, start, turnLimit, candidate,
                   tiesFound, visited, runCall, popSeq, expanded, refSeq>>
\* The deadline branch without its test of the accumulated time.
Deadline_NeverStops ==
    /\ pc = "while"
    /\ size > 0
    /\ now > turnLimit
    /\ activeTime' = activeTime + (now - start)
    /\ pc' = "idle"
    /\ spent' = spent + (now - start)
    /\ UNCHANGED <<interval, cause, resolves>>
    /\ UNCHANGED <<containerVars, historyVars, problemVars, now, isBeam,
                   representativeBest, equivalents, equivSize, nextLoopTime, hasTop, top,
                   optimalTime, bestTime, start, turnLimit, candidate, tiesFound, visited,
                   runCall, popSeq, expanded, refSeq>>

\* now > limit: the turn is over; the run ends when a time limit is reached
Deadline ==
    /\ pc = "while"
    /\ size > 0
    /\ now > turnLimit
    /\ activeTime' = activeTime + (now - start)
    /\ IF activeTime' >= totalTime \/ activeTime' * 100 >= optimalTime
       THEN Resolve("time")
       ELSE /\ pc' = "idle"
            /\ spent' = spent + (now - start)
            /\ UNCHANGED <<interval, cause, resolves>>
    /\ UNCHANGED <<containerVars, historyVars, problemVars, now, isBeam,
                   representativeBest, equivalents, equivSize, nextLoopTime, hasTop, top,
                   optimalTime, bestTime, start, turnLimit, candidate, tiesFound, visited,
                   runCall, popSeq, expanded, refSeq>>

\* const candidate = partials.pop()
PopCandidate ==
    /\ pc = "while"
    /\ size > 0
    /\ now <= turnLimit
    /\ candidate' = partialsPopRet(heap, size)
    /\ heap' = partialsPopHeap(heap, size)
    /\ size' = size - 1
    /\ visited' = visited \cup {candidate'}
    /\ popSeq' = Record(popSeq, candidate')
    /\ UNCHANGED <<limit, historyVars, problemVars, now, isBeam, nextLoopTime, start,
                   turnLimit, runCall, expanded, refSeq>>

\* !check(candidate): remember it and continue at the head of the do loop
PopPartial ==
    /\ PopCandidate
    /\ candidate' \notin check
    /\ top' = candidate'
    /\ hasTop' = TRUE
    /\ pc' = "iter"
    /\ UNCHANGED <<interval, representativeBest, equivalents, activeTime, equivSize,
                   optimalTime, bestTime, cause, tiesFound, spent, resolves>>
\* The better branch without equivalents.clear().
ScoreBetter_NoClear ==
    /\ PopCandidate
    /\ candidate' \in check
    /\ evaluate(candidate', representativeBest) < 0
    /\ equivalents' = equivalents \cup {candidate'}
    /\ bestTime' = activeTime
    /\ tiesFound' = 0
    /\ IF hasIsOptimal /\ isOptimal(candidate')
       THEN /\ Resolve("optimal")
            /\ UNCHANGED <<optimalTime, representativeBest>>
       ELSE /\ optimalTime' = IF optimalTimeRatio # 0
                              THEN activeTime * (200 - optimalTimeRatio)
                              ELSE optimalTime
            /\ representativeBest' = candidate'
            /\ UNCHANGED <<pc, interval, cause, spent, resolves>>
    /\ UNCHANGED <<activeTime, equivSize, hasTop, top>>

\* cmp < 0: a complete candidate strictly better than representativeBest
ScoreBetter ==
    /\ PopCandidate
    /\ candidate' \in check
    /\ evaluate(candidate', representativeBest) < 0
    /\ equivalents' = {candidate'}
    /\ bestTime' = activeTime
    /\ tiesFound' = 0
    /\ IF hasIsOptimal /\ isOptimal(candidate')
       THEN /\ Resolve("optimal")
            /\ UNCHANGED <<optimalTime, representativeBest>>
       ELSE /\ optimalTime' = IF optimalTimeRatio # 0
                              THEN activeTime * (200 - optimalTimeRatio)
                              ELSE optimalTime
            /\ representativeBest' = candidate'
            /\ UNCHANGED <<pc, interval, cause, spent, resolves>>
    /\ UNCHANGED <<activeTime, equivSize, hasTop, top>>

\* cmp === 0 && equivSize < maxSavedEquivalents
ScoreTiedSaved ==
    /\ PopCandidate
    /\ candidate' \in check
    /\ evaluate(candidate', representativeBest) = 0
    /\ equivSize < maxSavedEquivalents
    /\ equivalents' = equivalents \cup {candidate'}
    /\ equivSize' = equivSize + 1
    /\ tiesFound' = tiesFound + 1
    /\ IF equivSize' > equivBailLimit
       THEN Resolve("bail")
       ELSE UNCHANGED <<pc, interval, cause, spent, resolves>>
    /\ UNCHANGED <<representativeBest, activeTime, hasTop, top, optimalTime, bestTime>>

\* neither branch: the candidate is dropped
ScoreDropped ==
    /\ PopCandidate
    /\ candidate' \in check
    /\ LET cmp == evaluate(candidate', representativeBest)
       IN  /\ cmp >= 0
           /\ ~(cmp = 0 /\ equivSize < maxSavedEquivalents)
           /\ tiesFound' = IF cmp = 0 THEN tiesFound + 1 ELSE tiesFound
    /\ UNCHANGED <<pc, interval, representativeBest, equivalents, activeTime, equivSize,
                   hasTop, top, optimalTime, bestTime, cause, spent, resolves>>

\* the setInterval timer calls loop (no turn is running and the timer is registered)
Timer ==
    /\ pc \in {"idle", "resolved"}
    /\ interval
    /\ pc' = "enter"
    /\ UNCHANGED <<containerVars, historyVars, problemVars, now, interval, isBeam,
                   representativeBest, equivalents, activeTime, equivSize, nextLoopTime,
                   hasTop, top, optimalTime, bestTime, start, turnLimit, candidate, cause,
                   tiesFound, visited, auditVars>>

\* the clock advances by a millisecond
Tick ==
    /\ pc \in {"enter", "iter", "while", "idle"}
    /\ now < MaxClock
    /\ now' = now + 1
    /\ UNCHANGED <<containerVars, historyVars, problemVars, pc, interval, isBeam,
                   representativeBest, equivalents, activeTime, equivSize, nextLoopTime,
                   hasTop, top, optimalTime, bestTime, start, turnLimit, candidate, cause,
                   tiesFound, visited, auditVars>>

\* Past MaxClock the clock of a run with a finite totalTime still advances
\* while the run waits for it: in a turn until MaxOverrun past the turn's
\* deadline, between turns until nextLoopTime.
Await ==
    /\ totalTime < Infinity
    /\ now >= MaxClock
    /\ \/ pc \in {"iter", "while"} /\ now <= turnLimit + MaxOverrun
       \/ pc \in {"enter", "idle"} /\ now < nextLoopTime
    /\ now' = now + 1
    /\ UNCHANGED <<containerVars, historyVars, problemVars, pc, interval, isBeam,
                   representativeBest, equivalents, activeTime, equivSize, nextLoopTime,
                   hasTop, top, optimalTime, bestTime, start, turnLimit, candidate, cause,
                   tiesFound, visited, auditVars>>

\* --------------------------------------------- the search specification
\* The states of the modelled search problems.
States == 1..4

\* The search problems: expansion function, complete states, ranking (a lower
\* score is more optimal) and the initial states given to run.
Problems == {
    \* counters: expand(n) = {n + 1}, only the last is complete, compare = difference
    [extend |-> <<(<<2>>), (<<3>>), (<<4>>), (<<>>)>>, check |-> {4},
     score |-> <<1, 2, 3, 4>>, init |-> <<1>>],
    \* the same chain with every step an improvement
    [extend |-> <<(<<2>>), (<<3>>), (<<4>>), (<<>>)>>, check |-> {4},
     score |-> <<4, 3, 2, 1>>, init |-> <<1>>],
    \* one expansion into three tied complete states
    [extend |-> <<(<<2, 3, 4>>), (<<>>), (<<>>), (<<>>)>>, check |-> {2, 3, 4},
     score |-> <<2, 1, 1, 1>>, init |-> <<1>>],
    \* four complete initial states, two pairs of ties
    [extend |-> <<(<<>>), (<<>>), (<<>>), (<<>>)>>, check |-> {1, 2, 3, 4},
     score |-> <<2, 1, 1, 2>>, init |-> <<1, 2, 3, 4>>],
    \* a tree with complete states at two depths
    [extend |-> <<(<<2, 3>>), (<<4>>), (<<>>), (<<>>)>>, check |-> {3, 4},
     score |-> <<3, 1, 2, 1>>, init |-> <<1>>],
    \* no complete state at all
    [extend |-> <<(<<2, 3>>), (<<4>>), (<<>>), (<<>>)>>, check |-> {},
     score |-> <<1, 2, 2, 3>>, init |-> <<1>>],
    \* no initial state
    [extend |-> <<(<<>>), (<<>>), (<<>>), (<<>>)>>, check |-> {1, 2, 3, 4},
     score |-> <<1, 1, 1, 1>>, init |-> <<>>]}

\* An option that is absent or has one of the values vs.
Option(name, vs) == {<<>>} \cup {name :> v : v \in vs}

\* The option objects given to new Optimizer (times in ms, ratios in percent).
OptionObjects ==
    {o0 @@ o1 @@ o2 @@ o3 @@ o4 @@ o5 @@ o6 :
        o0 \in Option("turnTime", {1}),
        o1 \in Option("isOptimal", {States, {}}),
        o2 \in Option("beamLimit", {1, 2}),
        o3 \in Option("maxSavedEquivalents", {1, 2}),
        o4 \in Option("equivBailLimit", {0, 1}),
        o5 \in Option("totalTime", {2}),
        o6 \in Option("optimalTimeRatio", {0})}

\* new Optimizer(extend, check, evaluate, options) for one of the option
\* objects and one of the problems given; run has not been called
InitWith(optionObjects, problems) ==
    /\ options \in optionObjects
    /\ \E p \in problems :
         /\ extend = p.extend
         /\ check = p.check
         /\ score = p.score
         /\ init = p.init
    /\ heap = <<>>
    /\ size = 0
    /\ limit = 0
    /\ lastOp = [op |-> "none", arg |-> undefined, ret |-> undefined]
    /\ ideal = <<>>
    /\ popped = FALSE
    /\ pc = "start"
    /\ now = 0
    /\ interval = FALSE
    /\ isBeam = FALSE
    /\ representativeBest = undefined
    /\ equivalents = {}
    /\ activeTime = 0
    /\ equivSize = 0
    /\ nextLoopTime = 0
    /\ hasTop = FALSE
    /\ top = undefined
    /\ optimalTime = 0
    /\ bestTime = 0
    /\ start = 0
    /\ turnLimit = 0
    /\ candidate = undefined
    /\ cause = "none"
    /\ tiesFound = 0
    /\ visited = {}
    /\ runCall = "none"
    /\ spent = 0
    /\ popSeq = <<>>
    /\ expanded = <<>>
    /\ refSeq = <<>>
    /\ resolves = 0

OptInit == InitWith(OptionObjects, Problems)

OptNext ==
    \/ Run
    \/ LoopEnter
    \/ Expand
    \/ Exhausted
    \/ Deadline
    \/ PopPartial
    \/ ScoreBetter
    \/ ScoreTiedSaved
    \/ ScoreDropped
    \/ Timer
    \/ Tick

OptSpec == OptInit /\ [][OptNext]_vars

\* =========================================================== search claims
\* One step of the closure of a set of states under the expansion function.
RECURSIVE Closure(_)
Closure(S) ==
    LET T == S \cup UNION {Range(extend[s]) : s \in S}
    IN  IF T = S THEN S ELSE Closure(T)

\* The states reachable from the initial states via the expansion function.
Reachable == Closure(Range(init))

\* The comparator-optimal complete states among the reachable ones.
OptimalComplete ==
    {s \in Reachable \cap check : \A t \in Reachable \cap check : evaluate(s, t) <= 0}

\* No oracle, unbounded capacity, unbounded total time, every other option absent.
ExhaustiveDefaults == DOMAIN options = {}

\* C7: in exhaustive mode with default options, run pops every reachable
\* state and resolves with exactly the comparator-optimal complete states.
C7_ExhaustiveFindsOptimal ==
    (pc = "resolved" /\ ExhaustiveDefaults) =>
        (visited = Reachable /\ equivalents = OptimalComplete)

\* C8: when a complete state accepted by the oracle has been popped, the run
\* has resolved, with that state as its result.
C8_OracleTerminates ==
    (/\ pc \notin {"start", "rejected"}
     /\ hasIsOptimal
     /\ candidate # undefined
     /\ candidate \in check
     /\ isOptimal(candidate))
    => (pc = "resolved" /\ equivalents = {candidate})

\* C9: the tied-solution set never holds more than maxSavedEquivalents states.
C9_EquivalentsBound == Cardinality(equivalents) <= maxSavedEquivalents

\* C10: once more than equivBailLimit complete states have been found tied
\* with representativeBest, the run has resolved.
C10_BailLimitTerminates ==
    (pc \notin {"start", "rejected"} /\ tiesFound > equivBailLimit) => pc = "resolved"

\* ======================================================= container claims
\* x is not worse than any retained element
IsMinimum(x) == \A j \in 1..size : compare(x, heap[j]) # GT

\* x is not better than any retained element
IsMaximum(x) == \A j \in 1..size : compare(x, heap[j]) # LT

RECURSIVE IsDescendant(_, _)
IsDescendant(i, j) ==
    /\ j > i
    /\ \/ (j - 1) \div 2 = i
       \/ IsDescendant(i, (j - 1) \div 2)

\* The min-max heap invariant at every node of h.
MinMaxHeap(h) ==
    \A i \in 0..(Len(h) - 1) : \A j \in 0..(Len(h) - 1) :
        IsDescendant(i, j) =>
            IF isMinLevel(i) THEN compare(At(h, i), At(h, j)) # GT
            ELSE compare(At(h, i), At(h, j)) # LT

\* C1: after any interleaving of push and pop, Beam[0] is the
\* comparator-minimum of the retained elements.
C1_RootIsMinimum == size > 0 => IsMinimum(At(heap, 0))

\* C2: the constructor retains the min(n, k) best of its n inputs, and on
\* return the min-max heap invariant holds at every node, so that Beam[0] is
\* the minimum of the retained elements.
C2_ConstructorBuildsHeap ==
    lastOp.op = "new" =>
        /\ size = Min2(lastOp.arg, limit)
        /\ SortBest(heap) = ideal
        /\ MinMaxHeap(heap)
        /\ (size > 0 => IsMinimum(At(heap, 0)))

\* C3: after construction and any sequence of pushes with no pop, on a Beam
\* of capacity k >= 1, the retained multiset is the k best of all elements
\* given to the constructor and to push.
C3_TopKMaintained == (limit >= 1 /\ ~popped) => SortBest(heap) = ideal

\* C4: for a Beam holding at least two elements, the element at maxIndex is
\* the comparator-maximum of the retained elements.
C4_MaxAtMaxIndex == size >= 2 => IsMaximum(At(heap, maxIndex(heap, size)))

\* C5: the number of retained elements never exceeds a positive capacity.
C5_SizeWithinCapacity == limit >= 1 => (size <= limit /\ Len(heap) = size)

\* C5 witness: a push arrived at a Beam filled to its capacity (the element
\* pushed was not retained).
C5_Witness ==
    /\ lastOp.op = "push"
    /\ limit >= 2
    /\ size = limit
    /\ lastOp.arg \notin Range(heap)

\* C6: a push, at capacity, of an element worse than or tied with the worst
\* retained element leaves the heap array and the size unchanged.
C6_RejectedPushIsNoOp ==
    [][(/\ lastOp'.op = "push"
        /\ size = limit
        /\ IsMaximum(lastOp'.arg))
       => (heap' = heap /\ size' = size)]_vars

\* C6 witness: the element just pushed is strictly worse than everything
\* retained, so it was pushed at capacity and discarded.
C6_Witness ==
    /\ lastOp.op = "push"
    /\ size = limit
    /\ limit >= 2
    /\ \A j \in 1..size : compare(lastOp.arg, heap[j]) = GT

\* ------------------------------------------------ claims about run's edges
\* run was called
RunCalled == runCall # "none"

\* C11 as stated: with no initial states the call of run itself raises the
\* error, registers no timer and never invokes extend or check.
C11_ThrowsSynchronously ==
    (RunCalled /\ init = <<>>)
        => (/\ runCall = "threw"
            /\ ~interval
            /\ popSeq = <<>>
            /\ expanded = <<>>)

\* C11: with no initial states the call of run returns a promise that is
\* rejected and never resolved; no timer is registered and neither extend nor
\* check is ever invoked.
C11_EmptyInitRejects ==
    (RunCalled /\ init = <<>>)
        => (/\ runCall = "returned"
            /\ pc = "rejected"
            /\ resolves = 0
            /\ ~interval
            /\ popSeq = <<>>
            /\ expanded = <<>>)

\* C11 witness: run was called with no initial states, which went into an
\* empty Beam.
C11_Witness ==
    /\ RunCalled
    /\ init = <<>>
    /\ isBeam
    /\ size = 0
    /\ pc = "rejected"

\* ------------------------------------------------- claims about run's time
\* Searches without end: every expansion gives back the state expanded.
EndlessProblems == {
    \* one state that is never complete
    [extend |-> <<(<<1>>), (<<>>), (<<>>), (<<>>)>>, check |-> {},
     score |-> <<1, 1, 1, 1>>, init |-> <<1>>],
    \* the same next to a complete initial state that is better
    [extend |-> <<(<<1>>), (<<>>), (<<>>), (<<>>)>>, check |-> {2},
     score |-> <<2, 1, 1, 1>>, init |-> <<1, 2>>]}

\* Option objects with a finite totalTime of more than one turn.
TimedOptionObjects ==
    {("turnTime" :> 1) @@ o1 @@ o2 @@ o3 @@ o4 :
        o1 \in {"totalTime" :> v : v \in {3, 5}},
        o2 \in Option("beamLimit", {2}),
        o3 \in Option("maxSavedEquivalents", {1}),
        o4 \in Option("optimalTimeRatio", {0})}

TimedInit == InitWith(TimedOptionObjects, Problems \cup EndlessProblems)

TimedNext ==
    \/ OptNext
    \/ Await

\* The steps of loop; the engine runs a turn to its end and fires a registered
\* timer.
LoopProgress ==
    \/ LoopEnter
    \/ Expand
    \/ Exhausted
    \/ Deadline
    \/ PopPartial
    \/ ScoreBetter
    \/ ScoreTiedSaved
    \/ ScoreDropped
    \/ Timer

\* The clock advances.
ClockProgress ==
    \/ Tick
    \/ Await

\* Runs with a finite totalTime, on searches with and without an end, under an
\* engine that keeps running the loop and a clock that keeps advancing.
TimedSpec ==
    /\ TimedInit
    /\ [][TimedNext]_vars
    /\ WF_vars(LoopProgress)
    /\ WF_vars(ClockProgress)

\* a run with a finite totalTime is under way or over
TimedRun == RunCalled /\ init # <<>> /\ totalTime < Infinity

\* C12 as stated: a run with a finite totalTime resolves with an active time
\* of at most totalTime plus one turnTime.
C12_WithinOneTurn ==
    (TimedRun /\ pc = "resolved") => activeTime <= totalTime + turnTime

\* The active time accumulated before the turn that is running, or that ended
\* the run, is below totalTime.
BelowTotalBeforeLastTurn ==
    IF pc = "resolved" /\ cause = "time"
    THEN activeTime - (now - start) < totalTime
    ELSE activeTime < totalTime

\* C12: a run with a finite totalTime eventually resolves; every turn that is
\* suspended adds more than turnTime to the active time, and the active time
\* passes totalTime only in the final turn, by less than that turn's length
\* (which exceeds turnTime by however long the last iteration overran).
C12_ResolvesAfterTotalTime ==
    /\ [](TimedRun => BelowTotalBeforeLastTurn)
    /\ [][(TimedRun /\ pc = "while" /\ pc' = "idle")
            => activeTime' > activeTime + turnTime]_vars
    /\ (TimedRun ~> pc = "resolved")

\* C12 witness: a search without end was suspended at least once and then
\* resolved because of time, with an active time beyond totalTime plus one
\* turnTime.
C12_Witness ==
    /\ TimedRun
    /\ extend[1] = <<1>>
    /\ pc = "resolved"
    /\ cause = "time"
    /\ activeTime - (now - start) > 0
    /\ activeTime > totalTime + turnTime

\* C13: the active time run resolves with is the clock time spent in all the
\* turns of the run, the final turn included, and so is positive whenever
\* some clock time was spent in a turn.
C13_ActiveTimeIsComputeTime ==
    pc = "resolved" => (activeTime = spent /\ (spent > 0 => activeTime > 0))

\* C14: a run given neither optimalTimeRatio nor totalTime has no adaptive
\* limit and never ends because of time.
C14_NoRatioNoTimeLimit ==
    (RunCalled /\ ~Has("optimalTimeRatio") /\ ~Has("totalTime"))
        => cause # "time"

\* --------------------------------------- claims about the tied solutions
\* the candidate that was just scored is complete and tied with representativeBest
ScoredTied ==
    /\ pc \in {"while", "resolved"}
    /\ popSeq # <<>>
    /\ candidate \in check
    /\ evaluate(candidate, representativeBest) = 0

\* C15: a run given no maxSavedEquivalents retains every complete solution
\* it finds tied with representativeBest.
C15_DefaultKeepsEveryTie ==
    (~Has("maxSavedEquivalents") /\ ScoredTied) => candidate \in equivalents

\* C16: the count that is compared with maxSavedEquivalents and with
\* equivBailLimit is the number of solutions found tied with the current
\* representativeBest (counted up to the cap), so it starts again from 0
\* when a strictly better solution becomes representativeBest.
C16_CountFollowsBest ==
    RunCalled => equivSize = Min2(tiesFound, maxSavedEquivalents)

\* ------------------------------------------- claims about the turn loop
\* s is an initial segment of t
IsPrefix(s, t) == Len(s) <= Len(t) /\ SubSeq(t, 1, Len(s)) = s

\* the candidates of s that are not complete, in order
Incomplete(s) ==
    LET notComplete(c) == c \notin check
    IN  SelectSeq(s, notComplete)

\* C17: wherever the turn deadlines fall, the candidates are popped in the
\* order of the search that is never suspended; a candidate that is not
\* complete is expanded exactly once, before the next pop and within the turn
\* that popped it, and from every point between two pops the search that is
\* never suspended goes on with the same candidates.
C17_SuspensionTransparent ==
    (RunCalled /\ init # <<>>) =>
        /\ Len(refSeq) < MaxTrace
        /\ IsPrefix(popSeq, refSeq)
        /\ hasTop => (pc = "iter" /\ top = popSeq[Len(popSeq)] /\ top \notin check)
        /\ Incomplete(popSeq) = IF hasTop THEN Append(expanded, top) ELSE expanded
        /\ (~hasTop /\ cause \in {"none", "time"}) => popSeq \o Unsuspended = refSeq
        /\ cause \in {"exhausted", "optimal", "bail"} => popSeq = refSeq

\* C17 witness: a search that was suspended in the middle, with candidates
\* left in the container, has come to its end in a later turn after more
\* pops and expansions.
C17_Witness ==
    /\ pc = "resolved"
    /\ cause = "exhausted"
    /\ activeTime > 0
    /\ Len(expanded) >= 2
    /\ Len(popSeq) >= 4
    /\ popSeq = refSeq

\* the global termination condition that the recorded cause names holds
CauseHolds ==
    /\ cause \in {"exhausted", "optimal", "time", "bail"}
    /\ cause = "exhausted" => size = 0
    /\ cause = "optimal" =>
           (hasIsOptimal /\ candidate \in check /\ isOptimal(candidate))
    /\ cause = "time" =>
           (activeTime >= totalTime \/ activeTime * 100 >= optimalTime)
    /\ cause = "bail" => equivSize > equivBailLimit

\* C18: run resolves only in a state where the container is empty, the oracle
\* accepts the candidate just scored, the active time has reached totalTime
\* or the adaptive deadline, or the tie count exceeds equivBailLimit; it
\* resolves at most once, and nothing is popped, expanded or scored, and no
\* turn starts, once it has resolved.
C18_ResolvesOnceOnCause ==
    /\ [](RunCalled =>
            /\ resolves <= 1
            /\ (pc = "resolved") = (resolves = 1)
            /\ pc = "resolved" => CauseHolds)
    /\ [][pc = "resolved" =>
            UNCHANGED <<pc, containerVars, popSeq, expanded, equivalents, equivSize,
                        representativeBest, activeTime, resolves>>]_vars

\* C18 witness: a run resolved in a later turn because the active time passed
\* the adaptive deadline, with candidates left in the container.
C18_Witness ==
    /\ pc = "resolved"
    /\ resolves = 1
    /\ cause = "time"
    /\ activeTime < totalTime
    /\ popSeq # <<>>
    /\ size > 0

\* the complete states scored so far
Scored == visited \cap check

\* C19: every member of equivalents is a complete state that was scored, the
\* members are pairwise tied, and no complete state scored so far is strictly
\* better than a member; in particular for the set the run resolves with.
C19_ResultSound ==
    RunCalled =>
        \A m \in equivalents :
            /\ m \in Scored
            /\ \A m2 \in equivalents : evaluate(m, m2) = 0
            /\ \A s \in Scored : evaluate(s, m) >= 0

\* C19 witness: a run resolved with two tied solutions after it had scored a
\* complete state that is strictly worse than them.
C19_Witness ==
    /\ pc = "resolved"
    /\ Cardinality(equivalents) >= 2
    /\ \E s \in Scored : \A m \in equivalents : evaluate(s, m) > 0

\* ------------------------------------- claims about the Beam's elements
\* the multiset of the elements of s
BagOf(s) == [v \in Values |-> Count(s, v)]

\* the multiset b with one more, or one less, occurrence of e
BagPlus(b, e) == [b EXCEPT ![e] = @ + 1]
BagMinus(b, e) == [b EXCEPT ![e] = @ - 1]

\* C20: push below capacity adds exactly the pushed element; push at capacity
\* leaves the elements unchanged or replaces exactly one of them by the
\* pushed element; pop on a non-empty Beam removes exactly the element it
\* returns; pop on an empty Beam returns nothing and changes nothing.
C20_ElementsConserved ==
    [][/\ (lastOp'.op = "push" /\ size < limit) =>
            /\ BagOf(heap') = BagPlus(BagOf(heap), lastOp'.arg)
            /\ size' = size + 1
       /\ (lastOp'.op = "push" /\ size >= limit) =>
            /\ size' = size
            /\ \/ BagOf(heap') = BagOf(heap)
               \/ \E j \in 1..size :
                    BagOf(heap') = BagPlus(BagMinus(BagOf(heap), heap[j]), lastOp'.arg)
       /\ (lastOp'.op = "pop" /\ size > 0) =>
            /\ lastOp'.ret \in Range(heap)
            /\ BagOf(heap') = BagMinus(BagOf(heap), lastOp'.ret)
            /\ size' = size - 1
       /\ (lastOp'.op = "pop" /\ size = 0) =>
            /\ lastOp'.ret = undefined
            /\ heap' = heap
            /\ size' = 0
       /\ lastOp'.op \in {"push", "pop"} => Len(heap') = size']_vars

\* C20 witness: a pop took the root off a Beam of at least four elements, two
\* of them different, and the rest was rearranged.
C20_Witness ==
    /\ lastOp.op = "pop"
    /\ lastOp.ret # undefined
    /\ size >= 3
    /\ Cardinality(Range(heap)) >= 2

====
